---------------------------- MODULE Spec2Model ----------------------------
(***************************************************************************)
(* Model of src/uk_scraper.py: the Streamlit button handler, the           *)
(* Playwright extractor start_data_extraction and the Gemini synthesizer   *)
(* analyze_market_intelligence.                                            *)
(*                                                                         *)
(* One request is one thread of control, so a single program counter pc    *)
(* walks the handler, the extractor and the synthesizer.  Every library    *)
(* call that can raise is a step with a success and a failure outcome.     *)
(*                                                                         *)
(* A URL is a sequence of one-character strings.  A review text is a       *)
(* sequence of runs [ch |-> c, n |-> k] (k >= 1 copies of character c), so *)
(* that texts around the 400-character limit stay small values.            *)
(*                                                                         *)
(* Two library scopes are part of the control flow and are modelled by     *)
(* what they do on exit: leaving `async with async_playwright()` stops the *)
(* Playwright driver and with it any browser it still runs (StopDriver),   *)
(* and leaving `with st.status(...)` on an exception marks a status that   *)
(* is still running as failed (Propagate).                                 *)
(***************************************************************************)
EXTENDS Integers, Sequences, FiniteSets, TLC

VARIABLES
    pc,                \* position of the request in the script
    product_url,       \* st.text_input value (line 122)
    url,               \* start_data_extraction's url after line 79
    driver,            \* async_playwright() scope: "none" | "running" | "stopped"
    browser,           \* "none" | "open" | "closed" (browser.close()) | "killed" (driver stop)
    selectorAppears,   \* environment: whether a review body shows up on the page
    count,             \* elements.count() (line 101)
    raw_data,          \* elements.all_inner_texts() (line 104)
    extracted_reviews, \* local of start_data_extraction (lines 81, 106)
    exc,               \* an exception is in flight
    extraction,        \* "none" | "running" | "returned" | "raised"
    results,           \* handler's results (line 130)
    status,            \* st.status state: "none" | "running" | "complete" | "error"
    shown,             \* messages and widgets rendered so far
    errors,            \* error classes that occurred in this request
    synth,             \* analyze_market_intelligence: "none" | "running" | "returned" | "raised"
    listed,            \* genai.list_models() has answered
    available_models,  \* line 33
    selected_model,    \* lines 36-43
    generateCalled,    \* model.generate_content was called (line 69)
    report,            \* value returned by analyze_market_intelligence
    uncaught           \* an exception left the script

vars == <<pc, product_url, url, driver, browser, selectorAppears, count,
          raw_data, extracted_reviews, exc, extraction, results, status, shown, errors,
          synth, listed, available_models, selected_model, generateCalled,
          report, uncaught>>

---------------------------------------------------------------------------
(* Bounds *)

MaxTail == 2
MaxRuns == 3
MaxReviews == 2
MaxModels == 2

---------------------------------------------------------------------------
(* Generic helpers *)

Range(s) == { s[i] : i \in DOMAIN s }

SeqsUpTo(S, n) == UNION { [1..k -> S] : k \in 0..n }

Min(S) == CHOOSE x \in S : \A y \in S : x <= y

StartsWith(s, p) == Len(s) >= Len(p) /\ SubSeq(s, 1, Len(p)) = p

---------------------------------------------------------------------------
(* URL normalisation, lines 78-79 *)

HttpWord == <<"h", "t", "t", "p">>
HttpsScheme == <<"h", "t", "t", "p", "s", ":", "/", "/">>

NormalizeUrl(u) == IF ~StartsWith(u, HttpWord) THEN HttpsScheme \o u ELSE u

UrlPrefixes ==
    { <<>>, HttpWord \o <<":", "/", "/">>, HttpsScheme, HttpWord, <<"h", "t", "t">>,
      <<"f", "t", "p", ":", "/", "/">>, <<"H", "T", "T", "P", ":", "/", "/">> }

UrlInputs == { p \o t : p \in UrlPrefixes, t \in SeqsUpTo({"a", ".", "/", "h"}, MaxTail) }

SampleUrls == { <<>>, <<"a", ".", "u", "k">>, HttpsScheme \o <<"a">> }

---------------------------------------------------------------------------
(* Review cleaning, line 106: text.strip().replace('\n', ' ')[:400] *)

SnippetLimit == 400

NL == "\n"
SP == " "
Whitespace == {SP, NL}
TextChars == {"a", SP, NL}

Run(c, k) == [ch |-> c, n |-> k]

RECURSIVE TextLen(_)
TextLen(t) == IF t = <<>> THEN 0 ELSE Head(t).n + TextLen(Tail(t))

RECURSIVE LStrip(_)
LStrip(t) ==
    IF t = <<>> THEN <<>>
    ELSE IF Head(t).ch \in Whitespace THEN LStrip(Tail(t)) ELSE t

RECURSIVE RStrip(_)
RStrip(t) ==
    IF t = <<>> THEN <<>>
    ELSE IF t[Len(t)].ch \in Whitespace THEN RStrip(SubSeq(t, 1, Len(t) - 1)) ELSE t

Strip(t) == RStrip(LStrip(t))

ReplaceNewlines(t) ==
    [i \in DOMAIN t |-> IF t[i].ch = NL THEN Run(SP, t[i].n) ELSE t[i]]

RECURSIVE Slice(_, _)
Slice(t, k) ==
    IF t = <<>> \/ k <= 0 THEN <<>>
    ELSE IF Head(t).n <= k THEN <<Head(t)>> \o Slice(Tail(t), k - Head(t).n)
    ELSE <<Run(Head(t).ch, k)>>

CleanTextOffByOne(t) == Slice(ReplaceNewlines(Strip(t)), SnippetLimit - 1)

CleanText(t) == Slice(ReplaceNewlines(Strip(t)), SnippetLimit)

CleanAll(raw) == [i \in DOMAIN raw |-> CleanText(raw[i])]

RunLens == {1, SnippetLimit - 1, SnippetLimit, SnippetLimit + 1}
Runs == { Run(c, k) : c \in TextChars, k \in RunLens }
Texts == SeqsUpTo(Runs, MaxRuns)

SampleTexts ==
    { <<>>,
      <<Run("a", 3), Run(NL, 1), Run("a", 2)>>,
      <<Run(SP, 1), Run("a", SnippetLimit + 1), Run(NL, 2)>> }

---------------------------------------------------------------------------
(* Model selection, lines 33-43 *)

None == "None"

Preferences ==
    <<"models/gemini-1.5-flash", "models/gemini-1.5-pro", "models/gemini-1.0-pro">>

ModelNames == Range(Preferences) \cup {"models/gemini-2.0-flash"}

\* What genai.list_models() can answer: each model with whether
\* 'generateContent' is among its supported_generation_methods.
ProviderModels == { [name |-> m, generates |-> g] : m \in ModelNames, g \in BOOLEAN }
ProviderLists == SeqsUpTo(ProviderModels, MaxModels)

Generates(m) == m.generates

\* line 33: [m.name for m in genai.list_models() if 'generateContent' in ...]
AvailableModels(listing) ==
    LET kept == SelectSeq(listing, Generates)
    IN  [i \in DOMAIN kept |-> kept[i].name]

\* lines 36-40: the first preference that is in available_models
FirstPreferred(avail) ==
    LET hits == { i \in DOMAIN Preferences : Preferences[i] \in Range(avail) }
    IN  IF hits = {} THEN None ELSE Preferences[Min(hits)]

SelectModelByListOrder(avail) ==
    LET hits == { i \in DOMAIN avail : avail[i] \in Range(Preferences) }
    IN  IF hits # {} THEN avail[Min(hits)]
        ELSE IF avail # <<>> THEN avail[1] ELSE None

SelectModelNoEmptyGuard(avail) ==
    IF FirstPreferred(avail) # None THEN FirstPreferred(avail)
    ELSE Preferences[1]

\* lines 36-43
SelectModel(avail) ==
    IF FirstPreferred(avail) # None THEN FirstPreferred(avail)
    ELSE IF avail # <<>> THEN avail[1] ELSE None

---------------------------------------------------------------------------
(* The request: button handler, extractor, synthesizer *)

Blank ==
    /\ url = <<>>
    /\ driver = "none"
    /\ browser = "none"
    /\ selectorAppears = FALSE
    /\ count = 0
    /\ extracted_reviews = <<>>
    /\ exc = FALSE
    /\ extraction = "none"
    /\ results = <<>>
    /\ status = "none"
    /\ shown = {}
    /\ errors = {}
    /\ synth = "none"
    /\ listed = FALSE
    /\ available_models = <<>>
    /\ selected_model = None
    /\ generateCalled = FALSE
    /\ report = "none"
    /\ uncaught = FALSE

Init ==
    /\ pc = "idle"
    /\ product_url = <<>>
    /\ raw_data = <<>>
    /\ Blank

extractorVars == <<url, driver, browser, selectorAppears, count, raw_data,
                   extracted_reviews, exc, extraction>>
synthVars == <<synth, listed, available_models, selected_model, generateCalled, report>>
handlerVars == <<product_url, results, status, uncaught>>

\* lines 122-130 and 76-82: the click, the empty-URL branch, the status
\* container, and the entry of start_data_extraction up to async_playwright()
Click ==
    /\ pc = "idle"
    /\ \E u \in SampleUrls :
        /\ product_url' = u
        /\ IF u # <<>>
           THEN /\ status' = "running"
                /\ url' = NormalizeUrl(u)
                /\ extraction' = "running"
                /\ driver' = "running"
                /\ shown' = shown
                /\ pc' = "launch"
           ELSE /\ shown' = shown \cup {"enter_url_warning"}
                /\ pc' = "done"
                /\ UNCHANGED <<status, url, extraction, driver>>
    /\ UNCHANGED <<browser, selectorAppears, count, raw_data, extracted_reviews, exc,
                   results, errors, uncaught>>
    /\ UNCHANGED synthVars

\* lines 84-88 are outside the try statement: an exception there goes
\* straight to the exit of the async with block
RaiseOutsideTry ==
    /\ exc' = TRUE
    /\ pc' = "exit_playwright"

\* line 84
Launch ==
    /\ pc = "launch"
    /\ \/ /\ browser' = "open"
          /\ pc' = "new_context"
          /\ exc' = exc
       \/ /\ RaiseOutsideTry
          /\ browser' = browser
    /\ UNCHANGED <<url, driver, selectorAppears, count, raw_data, extracted_reviews,
                   extraction, shown, errors>>
    /\ UNCHANGED <<handlerVars, synthVars>>

\* lines 85-87
NewContext ==
    /\ pc = "new_context"
    /\ \/ /\ pc' = "new_page"
          /\ exc' = exc
       \/ RaiseOutsideTry
    /\ UNCHANGED <<url, driver, browser, selectorAppears, count, raw_data,
                   extracted_reviews, extraction, shown, errors>>
    /\ UNCHANGED <<handlerVars, synthVars>>

\* line 88
NewPage ==
    /\ pc = "new_page"
    /\ \/ /\ pc' = "goto"
          /\ exc' = exc
       \/ RaiseOutsideTry
    /\ UNCHANGED <<url, driver, browser, selectorAppears, count, raw_data,
                   extracted_reviews, extraction, shown, errors>>
    /\ UNCHANGED <<handlerVars, synthVars>>

\* line 107: an exception inside the try statement enters the except clause
Caught(class) ==
    /\ errors' = errors \cup {class}
    /\ pc' = "except"

\* lines 91-92
Goto ==
    /\ pc = "goto"
    /\ \/ /\ \E b \in BOOLEAN : selectorAppears' = b
          /\ shown' = shown \cup {"connecting_info"}
          /\ pc' = "sleep"
          /\ errors' = errors
       \/ /\ Caught("navigation")
          /\ shown' = shown \cup {"connecting_info"}
          /\ selectorAppears' = selectorAppears
    /\ UNCHANGED <<url, driver, browser, count, raw_data, extracted_reviews, exc,
                   extraction>>
    /\ UNCHANGED <<handlerVars, synthVars>>

\* lines 95-96
Sleep ==
    /\ pc = "sleep"
    /\ shown' = shown \cup {"captcha_warning"}
    /\ pc' = "wait_selector"
    /\ UNCHANGED errors
    /\ UNCHANGED <<extractorVars, handlerVars, synthVars>>

WaitForSelectorNoTimeout ==
    /\ pc = "wait_selector"
    /\ selectorAppears
    /\ pc' = "count"
    /\ UNCHANGED <<shown, errors>>
    /\ UNCHANGED <<extractorVars, handlerVars, synthVars>>

\* line 99: returns when the selector appears, raises after 12 s otherwise
WaitForSelector ==
    /\ pc = "wait_selector"
    /\ IF selectorAppears
       THEN pc' = "count" /\ errors' = errors
       ELSE Caught("selector")
    /\ UNCHANGED shown
    /\ UNCHANGED <<extractorVars, handlerVars, synthVars>>

\* lines 100-103
Count ==
    /\ pc = "count"
    /\ \/ /\ \E c \in 0..MaxReviews : count' = c
          /\ pc' = IF count' > 0 THEN "inner_texts" ELSE "finally"
          /\ errors' = errors
       \/ /\ Caught("reading")
          /\ count' = count
    /\ UNCHANGED shown
    /\ UNCHANGED <<url, driver, browser, selectorAppears, raw_data, extracted_reviews,
                   exc, extraction>>
    /\ UNCHANGED <<handlerVars, synthVars>>

\* lines 104-106
InnerTexts ==
    /\ pc = "inner_texts"
    /\ \/ /\ \E raw \in [1..count -> SampleTexts] : raw_data' = raw
          /\ extracted_reviews' = CleanAll(raw_data')
          /\ pc' = "finally"
          /\ errors' = errors
       \/ /\ Caught("reading")
          /\ UNCHANGED <<raw_data, extracted_reviews>>
    /\ UNCHANGED shown
    /\ UNCHANGED <<url, driver, browser, selectorAppears, count, exc, extraction>>
    /\ UNCHANGED <<handlerVars, synthVars>>

\* lines 107-109: st.error, then the debug screenshot, which may itself raise
Except ==
    /\ pc = "except"
    /\ shown' = shown \cup {"scraper_error"}
    /\ \E screenshotOk \in BOOLEAN : exc' = ~screenshotOk
    /\ pc' = "finally"
    /\ UNCHANGED errors
    /\ UNCHANGED <<url, driver, browser, selectorAppears, count, raw_data,
                   extracted_reviews, extraction>>
    /\ UNCHANGED <<handlerVars, synthVars>>

\* lines 110-111: browser.close(), which may itself raise
Finally ==
    /\ pc = "finally"
    /\ \/ browser' = "closed" /\ exc' = exc
       \/ browser' = browser /\ exc' = TRUE
    /\ pc' = "exit_playwright"
    /\ UNCHANGED <<shown, errors>>
    /\ UNCHANGED <<url, driver, selectorAppears, count, raw_data, extracted_reviews,
                   extraction>>
    /\ UNCHANGED <<handlerVars, synthVars>>

StopDriverLeavesBrowser == browser

\* line 82, leaving the async with block: the Playwright driver is stopped,
\* and a browser it still runs goes down with it
StopDriver == IF browser = "open" THEN "killed" ELSE browser

\* line 82 (exit) and line 112 / line 130: return extracted_reviews to the
\* handler, or let the exception in flight leave start_data_extraction
ExitPlaywright ==
    /\ pc = "exit_playwright"
    /\ driver' = "stopped"
    /\ browser' = StopDriver
    /\ IF exc
       THEN /\ extraction' = "raised"
            /\ results' = results
            /\ pc' = "propagate"
       ELSE /\ extraction' = "returned"
            /\ results' = extracted_reviews
            /\ pc' = "returned"
    /\ UNCHANGED <<shown, errors>>
    /\ UNCHANGED <<url, selectorAppears, count, raw_data, extracted_reviews, exc>>
    /\ UNCHANGED <<product_url, status, uncaught>>
    /\ UNCHANGED synthVars

\* line 126 (exit with an exception): the status container still running
\* is marked failed, and the exception leaves the script
Propagate ==
    /\ pc = "propagate"
    /\ status' = IF status = "running" THEN "error" ELSE status
    /\ uncaught' = TRUE
    /\ pc' = "done"
    /\ UNCHANGED <<shown, errors>>
    /\ UNCHANGED <<product_url, results>>
    /\ UNCHANGED <<extractorVars, synthVars>>

AlwaysTruthy(r) == TRUE

\* line 133 (and line 26): a list is truthy when it is not empty
Truthy(r) == r # <<>>

\* lines 131-137 and 149-151: branch on the extraction result; entering
\* analyze_market_intelligence includes its guard of lines 26-27
AfterExtraction ==
    /\ pc = "returned"
    /\ IF Truthy(results)
       THEN /\ status' = "running"
            /\ UNCHANGED <<shown, errors>>
            /\ IF ~Truthy(results)
               THEN /\ report' = "Error: No customer feedback found to analyze."
                    /\ synth' = "returned"
                    /\ pc' = "synth_returned"
               ELSE /\ report' = report
                    /\ synth' = "running"
                    /\ pc' = "configure"
       ELSE /\ status' = "error"
            /\ shown' = shown \cup {"no_reviews_error"}
            /\ errors' = errors \cup {"empty"}
            /\ pc' = "done"
            /\ UNCHANGED <<report, synth>>
    /\ UNCHANGED <<listed, available_models, selected_model, generateCalled>>
    /\ UNCHANGED <<product_url, results, uncaught>>
    /\ UNCHANGED extractorVars

SynthRaises(class) ==
    /\ report' = report
    /\ synth' = "raised"
    /\ errors' = errors \cup {class}
    /\ pc' = "propagate"

\* lines 72-73: every exception of the try body becomes the returned string
SynthCatch(class) ==
    /\ report' = "AI System Error"
    /\ synth' = "returned"
    /\ errors' = errors \cup {class}
    /\ pc' = "synth_returned"

\* line 30
Configure ==
    /\ pc = "configure"
    /\ \/ /\ pc' = "list_models"
          /\ UNCHANGED <<report, synth, errors>>
       \/ SynthCatch("ai_provider")
    /\ UNCHANGED <<listed, available_models, selected_model, generateCalled>>
    /\ UNCHANGED shown
    /\ UNCHANGED <<extractorVars, handlerVars>>

\* line 33
ListModels ==
    /\ pc = "list_models"
    /\ \/ /\ \E listing \in ProviderLists : available_models' = AvailableModels(listing)
          /\ listed' = TRUE
          /\ pc' = "select"
          /\ UNCHANGED <<report, synth, errors>>
       \/ /\ SynthCatch("ai_provider")
          /\ UNCHANGED <<listed, available_models>>
    /\ UNCHANGED <<selected_model, generateCalled>>
    /\ UNCHANGED shown
    /\ UNCHANGED <<extractorVars, handlerVars>>

\* lines 36-46
Select ==
    /\ pc = "select"
    /\ selected_model' = SelectModel(available_models)
    /\ IF selected_model' = None
       THEN /\ report' = "Critical Error: No generative AI models found for this API key."
            /\ synth' = "returned"
            /\ errors' = errors \cup {"no_model"}
            /\ pc' = "synth_returned"
       ELSE /\ pc' = "construct"
            /\ UNCHANGED <<report, synth, errors>>
    /\ UNCHANGED <<listed, available_models, generateCalled>>
    /\ UNCHANGED shown
    /\ UNCHANGED <<extractorVars, handlerVars>>

\* line 48
Construct ==
    /\ pc = "construct"
    /\ \/ /\ pc' = "generate"
          /\ UNCHANGED <<report, synth, errors>>
       \/ SynthCatch("ai_provider")
    /\ UNCHANGED <<listed, available_models, selected_model, generateCalled>>
    /\ UNCHANGED shown
    /\ UNCHANGED <<extractorVars, handlerVars>>

\* lines 51-70
Generate ==
    /\ pc = "generate"
    /\ generateCalled' = TRUE
    /\ \/ /\ report' = "Analysis Model"
          /\ synth' = "returned"
          /\ pc' = "synth_returned"
          /\ errors' = errors
       \/ SynthCatch("ai_provider")
    /\ UNCHANGED <<listed, available_models, selected_model>>
    /\ UNCHANGED shown
    /\ UNCHANGED <<extractorVars, handlerVars>>

\* lines 137-148: whatever string came back is rendered as the report
AfterSynth ==
    /\ pc = "synth_returned"
    /\ status' = "complete"
    /\ shown' = shown \cup {"balloons", "report_markdown", "raw_table"}
    /\ pc' = "done"
    /\ UNCHANGED errors
    /\ UNCHANGED <<product_url, results, uncaught>>
    /\ UNCHANGED <<extractorVars, synthVars>>

\* the next interaction reruns the script from the top: nothing is kept
Rerun ==
    /\ pc = "done"
    /\ pc' = "idle"
    /\ product_url' = <<>>
    /\ url' = <<>>
    /\ driver' = "none"
    /\ browser' = "none"
    /\ selectorAppears' = FALSE
    /\ count' = 0
    /\ raw_data' = <<>>
    /\ extracted_reviews' = <<>>
    /\ exc' = FALSE
    /\ extraction' = "none"
    /\ results' = <<>>
    /\ status' = "none"
    /\ shown' = {}
    /\ errors' = {}
    /\ synth' = "none"
    /\ listed' = FALSE
    /\ available_models' = <<>>
    /\ selected_model' = None
    /\ generateCalled' = FALSE
    /\ report' = "none"
    /\ uncaught' = FALSE

Step ==
    \/ Launch
    \/ NewContext
    \/ NewPage
    \/ Goto
    \/ Sleep
    \/ WaitForSelector
    \/ Count
    \/ InnerTexts
    \/ Except
    \/ Finally
    \/ ExitPlaywright
    \/ Propagate
    \/ AfterExtraction
    \/ Configure
    \/ ListModels
    \/ Select
    \/ Construct
    \/ Generate
    \/ AfterSynth

Next == Click \/ Step \/ Rerun

Spec == Init /\ [][Next]_vars

\* Once the button is clicked the script runs without waiting for the user:
\* every library call returns or raises (navigation and selector waits carry
\* timeouts, lines 92 and 99).
FairSpec == Spec /\ WF_vars(Step)

---------------------------------------------------------------------------
(* start_data_extraction's URL normalisation on its own, over all UrlInputs *)

InitUrl ==
    /\ pc = "normalize"
    /\ product_url \in UrlInputs
    /\ raw_data = <<>>
    /\ Blank

\* lines 78-79
Normalize ==
    /\ pc = "normalize"
    /\ url' = NormalizeUrl(product_url)
    /\ pc' = "normalized"
    /\ UNCHANGED <<driver, browser, selectorAppears, count, raw_data, extracted_reviews,
                   exc, extraction, shown, errors>>
    /\ UNCHANGED <<handlerVars, synthVars>>

NextUrl == Normalize

SpecUrl == InitUrl /\ [][NextUrl]_vars

---------------------------------------------------------------------------
(* Line 106 on its own: one element with any text of Texts, or up to       *)
(* MaxReviews elements of SampleTexts                                      *)

RawInputs ==
    { <<t>> : t \in Texts } \cup UNION { [1..k -> SampleTexts] : k \in 1..MaxReviews }

InitClean ==
    /\ pc = "clean"
    /\ product_url = <<>>
    /\ raw_data \in RawInputs
    /\ Blank

\* line 106
Clean ==
    /\ pc = "clean"
    /\ extracted_reviews' = CleanAll(raw_data)
    /\ pc' = "cleaned"
    /\ UNCHANGED <<url, driver, browser, selectorAppears, count, raw_data, exc,
                   extraction, shown, errors>>
    /\ UNCHANGED <<handlerVars, synthVars>>

NextClean == Clean

SpecClean == InitClean /\ [][NextClean]_vars

---------------------------------------------------------------------------
(* Properties *)

NoModelsText == "Critical Error: No generative AI models found for this API key."

DisplayStrings ==
    { "Analysis Model", "AI System Error", NoModelsText,
      "Error: No customer feedback found to analyze." }

\* Select (lines 36-46) has run in this request
Selected == listed /\ pc \in {"construct", "generate", "synth_returned", "done"}

AccessiblePreferences ==
    { i \in DOMAIN Preferences :
        \E j \in DOMAIN available_models : available_models[j] = Preferences[i] }

\* C1: once the model is selected, it is the earliest name of the preference
\* list that is accessible, whatever the order of the accessible list; when
\* no preferred name is accessible and the list is not empty, it is the
\* first element of the accessible list.
C1_ModelSelection ==
    Selected =>
        /\ AccessiblePreferences # {} =>
             \E i \in AccessiblePreferences :
                /\ selected_model = Preferences[i]
                /\ \A k \in AccessiblePreferences : i <= k
        /\ (AccessiblePreferences = {} /\ available_models # <<>>) =>
             selected_model = available_models[1]

\* C1 witness: the accessible list opens with the second preference, holds
\* the first preference behind it, and the first preference is selected.
C1_Witness ==
    /\ Selected
    /\ Len(available_models) = 2
    /\ available_models[1] = Preferences[2]
    /\ available_models[2] = Preferences[1]
    /\ selected_model = Preferences[1]

\* C2: when start_data_extraction returned an empty result, the synthesizer
\* is never entered (no listing, no generate call, no report), and the
\* request ends with the 'no reviews found' error; whenever a report value
\* exists or is rendered, the extraction result is not empty.
C2_NoSynthesisOnEmpty ==
    /\ (extraction = "returned" /\ results = <<>> /\ pc # "returned") =>
          /\ synth = "none"
          /\ ~listed
          /\ ~generateCalled
          /\ report = "none"
          /\ "report_markdown" \notin shown
          /\ pc = "done"
          /\ "no_reviews_error" \in shown
          /\ status = "error"
    /\ (synth # "none" \/ report # "none" \/ "report_markdown" \in shown) =>
          (extraction = "returned" /\ results # <<>>)

\* C2 witness: a request that ended after an extraction that returned nothing.
C2_Witness ==
    /\ pc = "done"
    /\ extraction = "returned"
    /\ results = <<>>
    /\ "no_reviews_error" \in shown

Taxonomy == {"navigation", "selector", "ai_provider", "no_model", "empty"}

\* C3: a request in which an error of the taxonomy occurred ends with the
\* status indicator in the error state, never in the complete state.
C3_ErrorsEndFailed ==
    (pc = "done" /\ errors \cap Taxonomy # {}) => status = "error"

\* C4: an exception raised during navigation or extraction is caught: the
\* function shows the error, returns an empty list, and no exception leaves
\* start_data_extraction, whatever the handler's own steps do.
C4_ExtractionFailureCaught ==
    (extraction \in {"returned", "raised"}
        /\ errors \cap {"navigation", "selector", "reading"} # {}) =>
        /\ extraction = "returned"
        /\ results = <<>>
        /\ "scraper_error" \in shown

\* C5: analyze_market_intelligence never raises; it returns a displayable
\* string, and the 'AI System Error' string when a provider call failed.
C5_SynthNeverRaises ==
    /\ synth # "raised"
    /\ synth = "returned" => report \in DisplayStrings
    /\ (synth = "returned" /\ "ai_provider" \in errors) => report = "AI System Error"

\* C5 witness: generate_content was called, failed, and the function returned.
C5_Witness ==
    /\ synth = "returned"
    /\ generateCalled
    /\ "ai_provider" \in errors
    /\ report = "AI System Error"

\* C6: with an empty accessible-model list, generate_content is never
\* called, nothing is raised, no report is produced, and the function
\* returns the 'no generative AI models found' string.
C6_NoModelError ==
    (listed /\ available_models = <<>>) =>
        /\ ~generateCalled
        /\ synth # "raised"
        /\ report \in {"none", NoModelsText}
        /\ pc \in {"select", "synth_returned", "done"}
        /\ synth = "returned" => report = NoModelsText

\* C6 witness: the listing answered with no usable model and the function returned.
C6_Witness ==
    /\ listed
    /\ available_models = <<>>
    /\ synth = "returned"
    /\ report = NoModelsText

HttpScheme == <<"h", "t", "t", "p", ":", "/", "/">>

HasScheme(u) == StartsWith(u, HttpScheme) \/ StartsWith(u, HttpsScheme)

\* C7: a URL that does not begin with 'http://' or 'https://' is navigated
\* to as 'https://' followed by the input; a URL that carries a scheme is
\* navigated to unchanged.
C7_SchemePrepended ==
    pc = "normalized" =>
        url = IF HasScheme(product_url) THEN product_url ELSE HttpsScheme \o product_url

\* C8 as stated: every element whose raw inner text is longer than 400
\* characters is stored with exactly 400 characters.
C8_RawLongGivesExactly400 ==
    pc = "cleaned" =>
        \A i \in DOMAIN raw_data :
            TextLen(raw_data[i]) > SnippetLimit =>
                TextLen(extracted_reviews[i]) = SnippetLimit

\* C8 amended: every element whose inner text is longer than 400 characters
\* after its leading and trailing whitespace is trimmed is stored with
\* exactly 400 characters.
C8_TrimmedLongGivesExactly400 ==
    pc = "cleaned" =>
        /\ DOMAIN extracted_reviews = DOMAIN raw_data
        /\ \A i \in DOMAIN raw_data :
              TextLen(Strip(raw_data[i])) > SnippetLimit =>
                  TextLen(extracted_reviews[i]) = SnippetLimit

\* C8 witness: a text padded with whitespace that is still longer than 400
\* characters once trimmed, stored with 400 characters.
C8_Witness ==
    /\ pc = "cleaned"
    /\ \E i \in DOMAIN raw_data :
          /\ TextLen(Strip(raw_data[i])) < TextLen(raw_data[i])
          /\ TextLen(Strip(raw_data[i])) > SnippetLimit
          /\ TextLen(extracted_reviews[i]) = SnippetLimit

TerminalOutcome ==
    \/ "report_markdown" \in shown
    \/ "no_reviews_error" \in shown
    \/ "enter_url_warning" \in shown
    \/ uncaught

StagesOrdered ==
    /\ synth = "running" =>
          (extraction = "returned" /\ browser \notin {"open"} /\ driver = "stopped")
    /\ browser = "open" => synth = "none"

\* C10: the synthesizer runs only after the extractor has returned and its
\* browser is down, and every started request reaches its end: a report, an
\* error or warning message, or an exception reported by the script runner.
C10_OrderedAndTerminates ==
    /\ [](StagesOrdered /\ (pc = "done" => TerminalOutcome))
    /\ (pc \notin {"idle", "done"}) ~> (pc = "done")

\* C10 witness: a request that went through both stages and ended.
C10_Witness ==
    /\ pc = "done"
    /\ browser = "closed"
    /\ synth = "returned"
    /\ "report_markdown" \in shown

=============================================================================
